---- MODULE Spec2Model ----
(***************************************************************************)
(* Model of the Capstone API (FastAPI + SQLAlchemy async sessions):        *)
(* three tables (temperature_readings, solar_pv_data, system_settings)     *)
(* and the request handlers of app.py.  Every request runs in its own      *)
(* session (database.get_db); handlers are split at their await points on  *)
(* the database, so requests of different sessions interleave there.       *)
(***************************************************************************)
EXTENDS Integers, Sequences, FiniteSets, TLC

VARIABLES
    system_settings,      \* rows of table system_settings, in insertion order
    temperature_readings, \* rows of table temperature_readings
    solar_pv_data,        \* rows of table solar_pv_data
    clock,                \* the instant last handed out by datetime.now(TARGET_TZ)
    req                   \* per session: the request in flight and its position

vars == <<system_settings, temperature_readings, solar_pv_data, clock, req>>

---------------------------------------------------------------------------
(* Bounds of the model *)

\* New requests arrive while the clock is below MaxClock.
MaxClock == 2
\* A PATCH body names at most MaxPatchKeys fields.
MaxPatchKeys == 2

\* Concurrent sessions handed out by get_db.
Sessions == {"s1", "s2"}

---------------------------------------------------------------------------
(* Optional values: Python None and a present value *)

None == <<>>
Some(v) == <<v>>

\* datetime.time(hour, minute), as minutes since midnight
TimeOfDay(hour, minute) == hour * 60 + minute

---------------------------------------------------------------------------
(* models.py: SystemSettings *)

DefaultSetpoint == 23
DefaultFanSpeed == 50
DefaultTimerOn == TimeOfDay(7, 0)
DefaultTimerOff == TimeOfDay(22, 0)
SettingsId == 1

StatusFields ==
    {"fan_1_status", "fan_4_status", "pump_1_status", "peltier_1_status",
     "fan_3_status", "fan_2_status", "pump_2_status", "peltier_2_status"}

ReportingSpeedFields == {"fan_1_speed_percent", "fan_3_speed_percent"}

\* Mutant: the PATCH schema declares every field of SettingsBase.
SettingsUpdateFieldsOfSettingsBase ==
    {"temperature_setpoint", "ac_timer_on", "ac_timer_off",
     "fan_4_speed_percent", "fan_2_speed_percent"}
        \cup ReportingSpeedFields \cup StatusFields

\* schemas.SettingsUpdate.model_fields
SettingsUpdateFields ==
    {"temperature_setpoint", "ac_timer_on", "ac_timer_off",
     "fan_4_speed_percent", "fan_2_speed_percent"}

\* the mapped columns of models.SystemSettings
SystemSettingsColumns ==
    {"id", "updated_at"} \cup SettingsUpdateFields \cup ReportingSpeedFields
        \cup StatusFields

\* The row INSERTed for models.SystemSettings(id=1) at instant t: every column
\* takes its Column(default=...).
SystemSettings(t) ==
    [id |-> SettingsId,
     temperature_setpoint |-> Some(DefaultSetpoint),
     ac_timer_on |-> Some(DefaultTimerOn),
     ac_timer_off |-> Some(DefaultTimerOff),
     fan_1_speed_percent |-> Some(DefaultFanSpeed),
     fan_2_speed_percent |-> Some(DefaultFanSpeed),
     fan_3_speed_percent |-> Some(DefaultFanSpeed),
     fan_4_speed_percent |-> Some(DefaultFanSpeed),
     fan_1_status |-> Some(FALSE),
     fan_4_status |-> Some(FALSE),
     pump_1_status |-> Some(FALSE),
     peltier_1_status |-> Some(FALSE),
     fan_3_status |-> Some(FALSE),
     fan_2_status |-> Some(FALSE),
     pump_2_status |-> Some(FALSE),
     peltier_2_status |-> Some(FALSE),
     updated_at |-> Some(t)]

\* Mutant: the primary key is not enforced.
PrimaryKeyViolationNoConstraint(table, row) == FALSE

\* id = Column(Integer, primary_key=True): an INSERT of a row whose id is
\* already in the table raises IntegrityError.
PrimaryKeyViolation(table, row) ==
    \E i \in DOMAIN table : table[i].id = row.id

\* select(SystemSettings).where(SystemSettings.id == 1), through db.scalar:
\* the first matching row, or None.
SelectSettings(table) ==
    LET hits == {i \in DOMAIN table : table[i].id = SettingsId}
    IN  IF hits = {} THEN None
        ELSE Some(table[CHOOSE i \in hits : \A j \in hits : i <= j])

---------------------------------------------------------------------------
(* schemas.py: SettingsUpdate, and the PATCH bodies the model sends *)

SetpointMin == -50
SetpointMax == 150
SpeedMin == 0
SpeedMax == 100

\* Values a request body may carry for a key (JSON null is None).
BodyValues(key) ==
    CASE key = "temperature_setpoint" ->
            {None, Some(DefaultSetpoint), Some(25), Some(200)}
      [] key = "ac_timer_on" -> {Some(TimeOfDay(8, 0))}
      [] key = "fan_4_speed_percent" -> {Some(80), Some(101)}
      [] key \in ReportingSpeedFields -> {Some(80)}
      [] OTHER -> {Some(TRUE)}

\* Keys that appear in request bodies: an editable field of each type (the
\* bounded float, a time of day, a bounded integer), a status field and a
\* reporting-only speed.
BodyKeys ==
    {"temperature_setpoint", "ac_timer_on", "fan_4_speed_percent"}
        \cup {"peltier_1_status", "fan_1_speed_percent"}

EmptyBody == [k \in {} |-> None]

Extend(body, key, value) ==
    [k \in DOMAIN body \cup {key} |-> IF k = key THEN value ELSE body[k]]

RECURSIVE BodiesOver(_)
BodiesOver(keys) ==
    IF keys = {} THEN {EmptyBody}
    ELSE LET key == CHOOSE k \in keys : TRUE
         IN  {Extend(b, key, v) : b \in BodiesOver(keys \ {key}), v \in BodyValues(key)}

PatchBodies ==
    UNION {BodiesOver(keys) :
             keys \in {K \in SUBSET BodyKeys : Cardinality(K) <= MaxPatchKeys}}

\* Field(None, ge=..., le=...): None passes, a number must lie in the range;
\* the timers and the booleans carry no constraint.
FieldValid(key, value) ==
    /\ (key = "temperature_setpoint" /\ value # None) =>
            (value[1] >= SetpointMin /\ value[1] <= SetpointMax)
    /\ (key \in {"fan_4_speed_percent", "fan_2_speed_percent"} \cup ReportingSpeedFields
            /\ value # None) =>
            (value[1] >= SpeedMin /\ value[1] <= SpeedMax)

\* Request validation against SettingsUpdate: only declared fields are
\* validated, other keys of the body are ignored (pydantic's default).
SettingsUpdateValid(body) ==
    \A key \in DOMAIN body \cap SettingsUpdateFields : FieldValid(key, body[key])

\* settings_update.model_dump(exclude_unset=True): the declared fields the body
\* set, with their values.
ModelDump(body) ==
    [key \in DOMAIN body \cap SettingsUpdateFields |-> body[key]]

\* hasattr(models.SystemSettings, key) and key in SettingsUpdate.model_fields
Editable(key) == key \in SystemSettingsColumns /\ key \in SettingsUpdateFields

\* The loop of setattr(settings, key, value) over update_data: the attributes
\* of the session's object after it.
SetAttrs(settings, update_data) ==
    [col \in DOMAIN settings |->
        IF col \in DOMAIN update_data /\ Editable(col) THEN update_data[col]
        ELSE settings[col]]

\* The unit of work at flush: the columns whose current value differs from the
\* value loaded into the session.  Only these go into the UPDATE.
ModifiedColumns(loaded, settings) ==
    {col \in DOMAIN settings : settings[col] # loaded[col]}

\* updated_at = Column(..., onupdate=get_current_time_in_target_tz): every
\* UPDATE of the row sets updated_at.
OnUpdate(row, t) == [row EXCEPT !.updated_at = Some(t)]

\* UPDATE system_settings SET <modified columns>, updated_at WHERE id = 1.
\* No statement is emitted when no column is modified.
UpdateSettings(table, loaded, settings, t) ==
    LET cols == ModifiedColumns(loaded, settings)
    IN  IF cols = {} THEN table
        ELSE [i \in DOMAIN table |->
                IF table[i].id = settings.id
                THEN OnUpdate([col \in DOMAIN table[i] |->
                                  IF col \in cols THEN settings[col]
                                  ELSE table[i][col]], t)
                ELSE table[i]]

\* Whether the flush of the PATCH emits an UPDATE.
EmitsUpdate(loaded, settings) == ModifiedColumns(loaded, settings) # {}

---------------------------------------------------------------------------
(* Requests *)

\* A session with no request in flight.
Idle ==
    [kind |-> "idle", pc |-> "idle", body |-> EmptyBody, loaded |-> None,
     temps |-> <<>>, solar |-> None, resp |-> None]

\* The response of a request: status code, the failure behind an error, and
\* the body (None for errors).
Response(code, cause, body) == Some([code |-> code, cause |-> cause, body |-> body])

HTTP_200_OK == 200
HTTP_201_CREATED == 201
HTTP_422_UNPROCESSABLE == 422
HTTP_500_INTERNAL_SERVER_ERROR == 500

\* The request of session s ends with response r.
Respond(s, r) ==
    req' = [req EXCEPT ![s] = [Idle EXCEPT !.kind = req[s].kind, !.pc = "done",
                                          !.body = req[s].body, !.resp = r]]

Init ==
    /\ system_settings = <<>>
    /\ temperature_readings = <<>>
    /\ solar_pv_data = <<>>
    /\ clock = 0
    /\ req = [s \in Sessions |-> Idle]

\* A request arrives and get_db hands it a session: the first one that is free.
Arrives(s) ==
    /\ req[s].pc = "idle"
    /\ s = "s2" => req["s1"].pc # "idle"
    /\ clock < MaxClock

\* The INSERT of the default settings row at commit: IntegrityError when the
\* key exists, or a storage fault; otherwise the row is in the table.
\* Yields the failure ("none" on success).
CreateFailure(table, fault) ==
    IF fault THEN "commit_fault"
    ELSE IF PrimaryKeyViolation(table, SystemSettings(0)) THEN "duplicate_key"
    ELSE "none"

---------------------------------------------------------------------------
(* GET /api/settings *)

\* lines 151-154, 169-170: the select; a found row is returned at once.
GetSettingsSelect(s) ==
    /\ Arrives(s)
    /\ LET settings == SelectSettings(system_settings)
       IN  IF settings = None
           THEN req' = [req EXCEPT ![s].kind = "get_settings", ![s].pc = "create"]
           ELSE req' = [req EXCEPT ![s].kind = "get_settings", ![s].pc = "done",
                                   ![s].resp = Response(HTTP_200_OK, "none", settings)]
    /\ UNCHANGED <<system_settings, temperature_readings, solar_pv_data, clock>>

\* lines 157-160, 164-167: db.add(SystemSettings(id=1)); commit; on failure
\* rollback and 500.
GetSettingsCreate(s) ==
    /\ req[s].kind = "get_settings" /\ req[s].pc = "create"
    /\ \E fault \in BOOLEAN :
        LET failure == CreateFailure(system_settings, fault)
        IN  IF failure = "none"
            THEN /\ clock' = clock + 1
                 /\ system_settings' = Append(system_settings, SystemSettings(clock + 1))
                 /\ req' = [req EXCEPT ![s].pc = "refresh"]
            ELSE /\ Respond(s, Response(HTTP_500_INTERNAL_SERVER_ERROR, failure, None))
                 /\ UNCHANGED <<system_settings, clock>>
    /\ UNCHANGED <<temperature_readings, solar_pv_data>>

\* lines 161-167: db.refresh(settings) re-reads the row; a failure here is
\* caught by the same except.
GetSettingsRefresh(s) ==
    /\ req[s].kind = "get_settings" /\ req[s].pc = "refresh"
    /\ \E fault \in BOOLEAN :
        IF fault
        THEN Respond(s, Response(HTTP_500_INTERNAL_SERVER_ERROR, "refresh_fault", None))
        ELSE Respond(s, Response(HTTP_200_OK, "none", SelectSettings(system_settings)))
    /\ UNCHANGED <<system_settings, temperature_readings, solar_pv_data, clock>>

---------------------------------------------------------------------------
(* PATCH /api/settings *)

\* Mutant: an empty patch is rejected as a client error.
EmptyPatchResponseRejected(settings) == Response(400, "nothing_to_update", None)

\* lines 212-217: no update data: the current settings are returned.
EmptyPatchResponse(settings) == Response(HTTP_200_OK, "none", settings)

\* Request validation, then lines 186-189 and 210-217: the select; with the row
\* present an empty update_data returns at once, otherwise the attributes are
\* set (lines 222-231) and the handler waits on the commit.
UpdateSettingsSelect(s) ==
    /\ Arrives(s)
    /\ \E body \in PatchBodies :
        LET arrived == [Idle EXCEPT !.kind = "update_settings", !.body = body]
            settings == SelectSettings(system_settings)
        IN  IF ~SettingsUpdateValid(body)
            THEN req' = [req EXCEPT ![s] = [Idle EXCEPT !.kind = "update_settings",
                            !.pc = "done",
                            !.resp = Response(HTTP_422_UNPROCESSABLE, "validation", None)]]
            ELSE IF settings = None
            THEN req' = [req EXCEPT ![s] = [arrived EXCEPT !.pc = "create"]]
            ELSE IF DOMAIN ModelDump(body) = {}
            THEN req' = [req EXCEPT ![s] = [arrived EXCEPT !.pc = "done",
                            !.resp = EmptyPatchResponse(settings)]]
            ELSE req' = [req EXCEPT ![s] = [arrived EXCEPT !.pc = "commit",
                            !.loaded = settings]]
    /\ UNCHANGED <<system_settings, temperature_readings, solar_pv_data, clock>>

\* lines 192-196, 199-202: the default row is added and committed.
UpdateSettingsCreate(s) ==
    /\ req[s].kind = "update_settings" /\ req[s].pc = "create"
    /\ \E fault \in BOOLEAN :
        LET failure == CreateFailure(system_settings, fault)
        IN  IF failure = "none"
            THEN /\ clock' = clock + 1
                 /\ system_settings' = Append(system_settings, SystemSettings(clock + 1))
                 /\ req' = [req EXCEPT ![s].pc = "refresh_created"]
            ELSE /\ Respond(s, Response(HTTP_500_INTERNAL_SERVER_ERROR, failure, None))
                 /\ UNCHANGED <<system_settings, clock>>
    /\ UNCHANGED <<temperature_readings, solar_pv_data>>

\* lines 197-202, then 210-231: the refresh after the creation, then the same
\* handling of update_data as with a row that was found.
UpdateSettingsRefreshCreated(s) ==
    /\ req[s].kind = "update_settings" /\ req[s].pc = "refresh_created"
    /\ \E fault \in BOOLEAN :
        IF fault
        THEN Respond(s, Response(HTTP_500_INTERNAL_SERVER_ERROR, "refresh_fault", None))
        ELSE LET settings == SelectSettings(system_settings)
             IN  IF DOMAIN ModelDump(req[s].body) = {}
                 THEN Respond(s, EmptyPatchResponse(settings))
                 ELSE req' = [req EXCEPT ![s].pc = "commit", ![s].loaded = settings]
    /\ UNCHANGED <<system_settings, temperature_readings, solar_pv_data, clock>>

\* lines 238-239, 243-246: the commit flushes the modified attributes as one
\* UPDATE; on failure rollback and 500.
UpdateSettingsCommit(s) ==
    /\ req[s].kind = "update_settings" /\ req[s].pc = "commit"
    /\ \E fault \in BOOLEAN :
        IF fault
        THEN /\ Respond(s, Response(HTTP_500_INTERNAL_SERVER_ERROR, "commit_fault", None))
             /\ UNCHANGED <<system_settings, clock>>
        ELSE LET loaded == req[s].loaded[1]
                 settings == SetAttrs(loaded, ModelDump(req[s].body))
             IN  /\ system_settings' =
                        UpdateSettings(system_settings, loaded, settings, clock + 1)
                 /\ clock' = IF EmitsUpdate(loaded, settings) THEN clock + 1 ELSE clock
                 /\ req' = [req EXCEPT ![s].pc = "refresh"]
    /\ UNCHANGED <<temperature_readings, solar_pv_data>>

\* lines 240-246: the refresh after the commit; the response is the row as it
\* is now.
UpdateSettingsRefresh(s) ==
    /\ req[s].kind = "update_settings" /\ req[s].pc = "refresh"
    /\ \E fault \in BOOLEAN :
        IF fault
        THEN Respond(s, Response(HTTP_500_INTERNAL_SERVER_ERROR, "refresh_fault", None))
        ELSE Respond(s, Response(HTTP_200_OK, "none", SelectSettings(system_settings)))
    /\ UNCHANGED <<system_settings, temperature_readings, solar_pv_data, clock>>

---------------------------------------------------------------------------
(* POST /temperature and POST /solar_pv *)

\* Request bodies of POST /temperature (schemas.TemperatureReadingCreate).
TemperatureReadingCreate ==
    [sensor_id : {"A"}, sensor_name : {None, Some("Probe")},
     temperature : {21}, sensor_type : {"DS18B20"}, battery_level : {None}]

\* Request bodies of POST /solar_pv (schemas.SolarPVDataCreate).
SolarPVDataCreate ==
    [panel_voltage : {18, 19}, panel_current : {2}, battery_voltage : {12},
     battery_current : {1}, load_voltage : {12}, load_current : {1},
     load_power : {12}, sunlight_intensity : {800}]

\* models.TemperatureReadingDB(**reading.model_dump()) as INSERTed: the id
\* comes from the table's sequence, the timestamp from the column default.
TemperatureReadingDB(reading, id, t) ==
    [id |-> id, sensor_id |-> reading.sensor_id, sensor_name |-> reading.sensor_name,
     temperature |-> reading.temperature, sensor_type |-> reading.sensor_type,
     battery_level |-> reading.battery_level, timestamp |-> t]

\* models.SolarPVDataDB(**data.model_dump()) as INSERTed.
SolarPVDataDB(data, id, t) ==
    [id |-> id, panel_voltage |-> data.panel_voltage,
     panel_current |-> data.panel_current, battery_voltage |-> data.battery_voltage,
     battery_current |-> data.battery_current, load_voltage |-> data.load_voltage,
     load_current |-> data.load_current, load_power |-> data.load_power,
     sunlight_intensity |-> data.sunlight_intensity, timestamp |-> t]

\* Mutant: the row of a failed commit stays in the table.
CommitInsertNoRollback(table, row, failed) == Append(table, row)

\* db.add(row); await db.commit(), with db.rollback() in the except: the row is
\* in the table exactly when the commit succeeded.
CommitInsert(table, row, failed) == IF failed THEN table ELSE Append(table, row)

\* The failure of a commit-then-refresh, from the outcome of each.
InsertOutcomes == {"none", "commit_fault", "refresh_fault"}

\* lines 77, 88-99: the whole handler; nothing is read before the commit and
\* the refresh re-reads the row just written.
ReceiveTemperature(s) ==
    /\ Arrives(s)
    /\ \E reading \in TemperatureReadingCreate, failure \in InsertOutcomes :
        LET db_reading == TemperatureReadingDB(reading,
                              Len(temperature_readings) + 1, clock + 1)
        IN  /\ temperature_readings' =
                   CommitInsert(temperature_readings, db_reading, failure = "commit_fault")
            /\ clock' = IF failure = "commit_fault" THEN clock ELSE clock + 1
            /\ req' = [req EXCEPT ![s].kind = "temperature", ![s].pc = "done",
                  ![s].body = reading,
                  ![s].resp =
                      IF failure = "none"
                      THEN Response(HTTP_201_CREATED, "none", Some(db_reading))
                      ELSE Response(HTTP_500_INTERNAL_SERVER_ERROR, failure, None)]
    /\ UNCHANGED <<system_settings, solar_pv_data>>

\* lines 114-116, 131-139
ReceiveSolarData(s) ==
    /\ Arrives(s)
    /\ \E data \in SolarPVDataCreate, failure \in InsertOutcomes :
        LET db_solar_data == SolarPVDataDB(data, Len(solar_pv_data) + 1, clock + 1)
        IN  /\ solar_pv_data' =
                   CommitInsert(solar_pv_data, db_solar_data, failure = "commit_fault")
            /\ clock' = IF failure = "commit_fault" THEN clock ELSE clock + 1
            /\ req' = [req EXCEPT ![s].kind = "solar_pv", ![s].pc = "done",
                  ![s].body = data,
                  ![s].resp =
                      IF failure = "none"
                      THEN Response(HTTP_201_CREATED, "none", Some(db_solar_data))
                      ELSE Response(HTTP_500_INTERNAL_SERVER_ERROR, failure, None)]
    /\ UNCHANGED <<system_settings, temperature_readings>>

---------------------------------------------------------------------------
(* GET /status *)

StatusTemperatureLimit == 8

Remove(seq, i) == SubSeq(seq, 1, i - 1) \o SubSeq(seq, i + 1, Len(seq))

\* Mutant: the rows come in the order of the table, oldest first.
OrderByNothing(rows) == rows

\* .order_by(timestamp.desc())
RECURSIVE OrderByTimestampDesc(_)
OrderByTimestampDesc(rows) ==
    IF rows = <<>> THEN <<>>
    ELSE LET i == CHOOSE i \in DOMAIN rows :
                    \A j \in DOMAIN rows :
                        \/ rows[j].timestamp < rows[i].timestamp
                        \/ rows[j].timestamp = rows[i].timestamp /\ i <= j
         IN  <<rows[i]>> \o OrderByTimestampDesc(Remove(rows, i))

\* .limit(n)
Limit(rows, n) == SubSeq(rows, 1, IF Len(rows) < n THEN Len(rows) ELSE n)

\* lines 259-269: the latest temperatures; an error gives the empty list.
StatusTemperatures(s) ==
    /\ Arrives(s)
    /\ \E fault \in BOOLEAN :
        req' = [req EXCEPT ![s].kind = "status", ![s].pc = "solar",
                  ![s].temps =
                      IF fault THEN <<>>
                      ELSE Limit(OrderByTimestampDesc(temperature_readings),
                                 StatusTemperatureLimit)]
    /\ UNCHANGED <<system_settings, temperature_readings, solar_pv_data, clock>>

\* lines 273-285: the latest solar sample; an error gives None.
StatusSolar(s) ==
    /\ req[s].kind = "status" /\ req[s].pc = "solar"
    /\ \E fault \in BOOLEAN :
        req' = [req EXCEPT ![s].pc = "settings",
                  ![s].solar =
                      IF fault \/ solar_pv_data = <<>> THEN None
                      ELSE Some(OrderByTimestampDesc(solar_pv_data)[1])]
    /\ UNCHANGED <<system_settings, temperature_readings, solar_pv_data, clock>>

\* Mutant: the status view falls back to default settings.
StatusSettingsLookupOrDefault(table, fault) ==
    IF fault THEN None
    ELSE IF SelectSettings(table) = None THEN Some(SystemSettings(0))
    ELSE SelectSettings(table)

\* Mutant: the failure of the lookup is not turned into an absent row.
StatusSettingsLookupUnhandled(table, fault) == SelectSettings(table)

\* lines 289-299: the settings row as it is, None when absent or on an error;
\* nothing is created (lines 302-308).
StatusSettingsLookup(table, fault) == IF fault THEN None ELSE SelectSettings(table)

\* Mutant: the status view creates the default row when none exists.
StatusSettingsTableGetOrCreate(table, t) ==
    IF SelectSettings(table) = None THEN Append(table, SystemSettings(t)) ELSE table

\* lines 302-308: the status handler leaves the creation of the settings row
\* to /api/settings; the table is as it was.
StatusSettingsTable(table, t) == table

\* lines 289-318: the settings lookup and the assembled response; a failure of
\* the lookup is logged and the response is built all the same.
StatusSettings(s) ==
    /\ req[s].kind = "status" /\ req[s].pc = "settings"
    /\ \E fault \in BOOLEAN :
        Respond(s, Response(HTTP_200_OK, IF fault THEN "settings_fault" ELSE "none",
                    Some([temperatures |-> req[s].temps,
                          solar_data |-> req[s].solar,
                          current_settings |->
                              StatusSettingsLookup(system_settings, fault)])))
    /\ system_settings' = StatusSettingsTable(system_settings, clock)
    /\ UNCHANGED <<temperature_readings, solar_pv_data, clock>>

---------------------------------------------------------------------------
(* GET /api/temperature_history *)

\* The query parameters of GET /api/temperature_history: sensor_name, start_time
\* and end_time are None when omitted; limit has a default, so it is always
\* there.
HistoryQueries ==
    [sensor_name : {None, Some(""), Some("Probe")},
     limit : {0, 1, 2},
     start_time : {None, Some(2)},
     end_time : {None, Some(1), Some(2)}]

\* `if sensor_name:` on an Optional[str]: None is false, and so is the empty
\* string.
TruthyStr(param) == param # None /\ param # Some("")

\* `if start_time:`, `if end_time:` on an Optional[datetime]: None is false, a
\* datetime is always true.
TruthyDatetime(param) == param # None

\* Mutant: the end_time filter is not applied.
HistoryWhereNoEndTime(row, query) ==
    /\ TruthyStr(query.sensor_name) => row.sensor_name = query.sensor_name
    /\ TruthyDatetime(query.start_time) => row.timestamp >= query.start_time[1]

\* lines 340-349: the where clauses the statement collects; a row whose
\* sensor_name is NULL matches no sensor_name filter.
HistoryWhere(row, query) ==
    /\ TruthyStr(query.sensor_name) => row.sensor_name = query.sensor_name
    /\ TruthyDatetime(query.start_time) => row.timestamp >= query.start_time[1]
    /\ TruthyDatetime(query.end_time) => row.timestamp <= query.end_time[1]

\* .order_by(timestamp.asc())
RECURSIVE OrderByTimestampAsc(_)
OrderByTimestampAsc(rows) ==
    IF rows = <<>> THEN <<>>
    ELSE LET i == CHOOSE i \in DOMAIN rows :
                    \A j \in DOMAIN rows :
                        \/ rows[j].timestamp > rows[i].timestamp
                        \/ rows[j].timestamp = rows[i].timestamp /\ i <= j
         IN  <<rows[i]>> \o OrderByTimestampAsc(Remove(rows, i))

\* lines 337-352: the statement as executed on the table.
SelectHistory(table, query) ==
    Limit(OrderByTimestampAsc(SelectSeq(table, LAMBDA row : HistoryWhere(row, query))),
          query.limit)

\* lines 337-364: the whole handler; the one await is the execution of the
\* statement, whose failure gives a 500.  A read takes no clock tick.
GetTemperatureHistory(s) ==
    /\ req[s].pc = "idle"
    /\ s = "s2" => req["s1"].pc # "idle"
    /\ \E query \in HistoryQueries, fault \in BOOLEAN :
        req' = [req EXCEPT ![s].kind = "temperature_history", ![s].pc = "done",
                  ![s].body = query,
                  ![s].resp =
                      IF fault
                      THEN Response(HTTP_500_INTERNAL_SERVER_ERROR, "query_fault", None)
                      ELSE Response(HTTP_200_OK, "none",
                               Some(SelectHistory(temperature_readings, query)))]
    /\ UNCHANGED <<system_settings, temperature_readings, solar_pv_data, clock>>

---------------------------------------------------------------------------
(* database.get_db *)

\* lines 47-50: after the handler the session commits (nothing is pending: every
\* handler committed or rolled back itself) and closes.
GetDb(s) ==
    /\ req[s].pc = "done"
    /\ req' = [req EXCEPT ![s] = Idle]
    /\ UNCHANGED <<system_settings, temperature_readings, solar_pv_data, clock>>

---------------------------------------------------------------------------

\* The settings endpoints, the status view and the session teardown.
SettingsNext ==
    \E s \in Sessions :
        \/ GetSettingsSelect(s)
        \/ GetSettingsCreate(s)
        \/ GetSettingsRefresh(s)
        \/ UpdateSettingsSelect(s)
        \/ UpdateSettingsCreate(s)
        \/ UpdateSettingsRefreshCreated(s)
        \/ UpdateSettingsCommit(s)
        \/ UpdateSettingsRefresh(s)
        \/ StatusTemperatures(s)
        \/ StatusSolar(s)
        \/ StatusSettings(s)
        \/ GetDb(s)

\* The telemetry endpoints, the status view and the session teardown.
TelemetryNext ==
    \E s \in Sessions :
        \/ ReceiveTemperature(s)
        \/ ReceiveSolarData(s)
        \/ GetTemperatureHistory(s)
        \/ StatusTemperatures(s)
        \/ StatusSolar(s)
        \/ StatusSettings(s)
        \/ GetDb(s)

Next == SettingsNext \/ TelemetryNext

\* The whole API.
Spec == Init /\ [][Next]_vars

\* The API restricted to the requests that read or write system_settings.
SettingsSpec == Init /\ [][SettingsNext]_vars

\* The API restricted to the requests that read or write the two telemetry
\* tables.
TelemetrySpec == Init /\ [][TelemetryNext]_vars

---------------------------------------------------------------------------
(* Properties *)

\* The settings row of a table that holds one.
Row(table) == SelectSettings(table)[1]

\* The response of session s, once it has one.
Resp(s) == req[s].resp[1]

\* C1: in every reachable state the settings table holds at most one row, and
\* that row has id = 1.
C1_AtMostOneSettingsRow ==
    /\ Len(system_settings) <= 1
    /\ \A i \in DOMAIN system_settings : system_settings[i].id = SettingsId

\* Two first-access requests both saw the table empty; one created the row and
\* the other's INSERT hit the primary key.
C1_Witness ==
    /\ Len(system_settings) = 1
    /\ \E s \in Sessions :
        /\ req[s].resp # None
        /\ Resp(s).cause = "duplicate_key"

\* C2: no caller ever receives an error because of the duplicate-key race of two
\* first-access requests: the loser re-reads the row and succeeds.
C2_RaceLoserRecovers ==
    \A s \in Sessions :
        (req[s].resp # None /\ req[s].kind \in {"get_settings", "update_settings"})
            => Resp(s).cause # "duplicate_key"

\* A valid PATCH with no editable field arrives at session s while the settings
\* row exists.
EmptyPatchArrives(s) ==
    /\ req[s].pc = "idle"
    /\ req'[s].kind = "update_settings"
    /\ req'[s].resp # None
    /\ req'[s].resp[1].cause # "validation"
    /\ DOMAIN ModelDump(req'[s].body) = {}
    /\ system_settings # <<>>

PatchCommits(s) ==
    /\ req[s].kind = "update_settings"
    /\ req[s].pc = "commit"
    /\ req'[s].pc = "refresh"

\* C4: a successful PATCH naming the editable fields F sets exactly the fields
\* of F to the supplied values and updates updated_at; every other field keeps
\* its value.
C4_PatchSetsExactlyNamedFields ==
    [][\A s \in Sessions :
          PatchCommits(s) =>
              LET update_data == ModelDump(req[s].body)
                  before == Row(system_settings)
                  after == Row(system_settings')
              IN  /\ \A key \in DOMAIN update_data : after[key] = update_data[key]
                  /\ after.updated_at # before.updated_at
                  /\ \A col \in DOMAIN before \ (DOMAIN update_data \cup {"updated_at"}) :
                        after[col] = before[col]]_vars

\* The body of the request names status or reporting-only fields and nothing
\* else.
OnlyReportedFields(body) ==
    /\ DOMAIN body # {}
    /\ DOMAIN body \subseteq StatusFields \cup ReportingSpeedFields

\* C5: a PATCH naming only reported-status or reporting-only speed fields, on an
\* existing row, changes no stored value of the settings row, updated_at
\* included: no step of such a request changes the table.
C5_ReportedFieldsIgnored ==
    [][\A s \in Sessions :
          ( /\ req'[s] # req[s]
            /\ system_settings # <<>>
            /\ \/ req[s].kind = "update_settings" /\ OnlyReportedFields(req[s].body)
               \/ req'[s].kind = "update_settings" /\ OnlyReportedFields(req'[s].body) )
              => system_settings' = system_settings]_vars

\* A PATCH naming only reported fields has been answered with the row as it is.
C5_Witness ==
    \E s \in Sessions :
        /\ req[s].kind = "update_settings" /\ req[s].pc = "done"
        /\ OnlyReportedFields(req[s].body)
        /\ Resp(s).code = HTTP_200_OK
        /\ Resp(s).body # None
        /\ Resp(s).body = SelectSettings(system_settings)

\* The three tables are empty.
EmptyStore ==
    /\ system_settings = <<>>
    /\ temperature_readings = <<>>
    /\ solar_pv_data = <<>>

\* GET /status of session s takes its last step, the one that answers.
StatusAnswers(s) ==
    /\ req[s].kind = "status"
    /\ req[s].pc = "settings"
    /\ req'[s].pc = "done"

SettingsCreated(s) ==
    /\ req[s].kind \in {"get_settings", "update_settings"}
    /\ req[s].pc = "create"
    /\ req'[s].pc \in {"refresh", "refresh_created"}

\* C7: the settings row is absent or present; a present row stays present, and
\* the step from absent to present is the creation by a GET or a PATCH of
\* /api/settings.
C7_AbsentToPresentOnly ==
    [][/\ system_settings # <<>> => system_settings' # <<>>
       /\ (system_settings = <<>> /\ system_settings' # <<>>) =>
              \E s \in Sessions : SettingsCreated(s)]_vars

\* The row exists and a later PATCH has committed on it.
C7_Witness ==
    /\ system_settings # <<>>
    /\ \E s \in Sessions :
        /\ req[s].kind = "update_settings" /\ req[s].pc = "refresh"
        /\ Row(system_settings).updated_at # req[s].loaded[1].updated_at

\* C8: updated_at changes on every accepted PATCH mutation, one that writes a
\* field with the value it already holds included, and on no other operation.
C8_UpdatedAtOnEveryMutation ==
    [][/\ \A s \in Sessions :
            PatchCommits(s) =>
                Row(system_settings').updated_at # Row(system_settings).updated_at
       /\ ( /\ system_settings # <<>>
            /\ system_settings' # <<>>
            /\ Row(system_settings').updated_at # Row(system_settings).updated_at )
              => \E s \in Sessions : PatchCommits(s)]_vars

\* POST /temperature of session s is accepted.
TemperatureAccepted(s) ==
    /\ req[s].pc = "idle"
    /\ req'[s].kind = "temperature"
    /\ req'[s].resp[1].code = HTTP_201_CREATED

\* C9: an accepted POST /temperature adds exactly one row per reading, with a
\* server-assigned timestamp, whose sensor_name is the supplied name or, when
\* the input omits it, "Sensor_" followed by the sensor_id.
C9_SensorNameResolved ==
    [][\A s \in Sessions :
          TemperatureAccepted(s) =>
              LET reading == req'[s].body
                  n == Len(temperature_readings)
              IN  /\ Len(temperature_readings') = n + 1
                  /\ SubSeq(temperature_readings', 1, n) = temperature_readings
                  /\ temperature_readings'[n + 1].timestamp = clock'
                  /\ temperature_readings'[n + 1].sensor_name =
                        IF reading.sensor_name = None
                        THEN Some("Sensor_" \o reading.sensor_id)
                        ELSE reading.sensor_name]_vars

\* The commit of POST /temperature or POST /solar_pv of session s fails.
TelemetryCommitFails(s) ==
    /\ req[s].pc = "idle"
    /\ req'[s].kind \in {"temperature", "solar_pv"}
    /\ req'[s].resp[1].cause = "commit_fault"

\* C10: when the commit of POST /temperature or POST /solar_pv fails, the caller
\* gets a 500 and both telemetry tables hold exactly the rows they held before.
C10_FailedCommitRetainsNothing ==
    [][\A s \in Sessions :
          TelemetryCommitFails(s) =>
              /\ req'[s].resp[1].code = HTTP_500_INTERNAL_SERVER_ERROR
              /\ temperature_readings' = temperature_readings
              /\ solar_pv_data' = solar_pv_data]_vars

\* One request of each telemetry endpoint has failed at its commit, with rows
\* of earlier requests in the tables.
C10_Witness ==
    /\ temperature_readings # <<>>
    /\ \E s, t \in Sessions :
        /\ req[s].kind = "temperature" /\ req[s].pc = "done"
        /\ Resp(s).cause = "commit_fault"
        /\ Resp(s).code = HTTP_500_INTERNAL_SERVER_ERROR
        /\ req[t].kind = "solar_pv" /\ req[t].pc = "done"
        /\ Resp(t).cause = "commit_fault"

\* The PATCH of session s is answered with a server error at this step.
PatchFails(s) ==
    /\ req[s].kind = "update_settings"
    /\ req[s].resp = None
    /\ req'[s].resp # None
    /\ req'[s].resp[1].code = HTTP_500_INTERNAL_SERVER_ERROR

\* The PATCH of session s has committed a change of its own to the settings
\* table: the INSERT of the default row (it waits on the refresh after the
\* creation), or an UPDATE (it waits on the refresh after its commit, and its
\* attributes differed from the loaded ones).
PatchHasWritten(s) ==
    /\ req[s].kind = "update_settings"
    /\ \/ req[s].pc = "refresh_created"
       \/ /\ req[s].pc = "refresh"
          /\ EmitsUpdate(req[s].loaded[1],
                         SetAttrs(req[s].loaded[1], ModelDump(req[s].body)))

\* C11: a PATCH /api/settings that ends in a server error has left the
\* persisted settings as they were before the call: it is a single commit, so
\* a request that has already committed a write of its own is never answered
\* with a 500.
C11_FailedPatchLeavesStateIntact ==
    [][\A s \in Sessions : PatchFails(s) => ~PatchHasWritten(s)]_vars

\* GET /api/temperature_history of session s is answered with rows at this
\* step.
HistoryAnswers(s) ==
    /\ req[s].pc = "idle"
    /\ req'[s].kind = "temperature_history"
    /\ req'[s].resp[1].code = HTTP_200_OK

\* The rows are stored readings, in ascending order of timestamp, and no more
\* than limit of them.
StoredAscendingLimited(rows, limit) ==
    /\ \A i \in DOMAIN rows :
          \E k \in DOMAIN temperature_readings : temperature_readings[k] = rows[i]
    /\ \A i, j \in DOMAIN rows : i < j => rows[i].timestamp <= rows[j].timestamp
    /\ Len(rows) <= limit

\* C12 (as stated): GET /api/temperature_history returns only stored readings
\* that satisfy every supplied filter (sensor_name equal, start_time <=
\* timestamp <= end_time, bounds included; a filter is supplied when its
\* parameter is in the request), in ascending order of timestamp, at most limit
\* of them.
C12_HistoryEverySuppliedFilter ==
    [][\A s \in Sessions :
          HistoryAnswers(s) =>
              LET query == req'[s].body
                  rows == req'[s].resp[1].body[1]
              IN  /\ StoredAscendingLimited(rows, query.limit)
                  /\ \A i \in DOMAIN rows :
                        /\ query.sensor_name # None =>
                               rows[i].sensor_name = query.sensor_name
                        /\ query.start_time # None =>
                               rows[i].timestamp >= query.start_time[1]
                        /\ query.end_time # None =>
                               rows[i].timestamp <= query.end_time[1]]_vars

\* C12 (amended): the same, where a sensor_name that is the empty string counts
\* as omitted and constrains nothing.
C12_HistoryEveryNonEmptyFilter ==
    [][\A s \in Sessions :
          HistoryAnswers(s) =>
              LET query == req'[s].body
                  rows == req'[s].resp[1].body[1]
              IN  /\ StoredAscendingLimited(rows, query.limit)
                  /\ \A i \in DOMAIN rows :
                        /\ (query.sensor_name # None /\ query.sensor_name[1] # "") =>
                               rows[i].sensor_name = query.sensor_name
                        /\ query.start_time # None =>
                               rows[i].timestamp >= query.start_time[1]
                        /\ query.end_time # None =>
                               rows[i].timestamp <= query.end_time[1]]_vars

\* A query that supplies the three filters has been answered with the one
\* reading on its bounds, and another with an empty sensor_name has been
\* answered with a reading of a sensor that has a name; the table holds a
\* reading that the first query leaves out.
C12_Witness ==
    /\ Len(temperature_readings) >= 2
    /\ \E s, t \in Sessions :
        /\ req[s].kind = "temperature_history" /\ req[s].pc = "done"
        /\ req[s].body.sensor_name = Some("Probe")
        /\ req[s].body.start_time = Some(2)
        /\ req[s].body.end_time = Some(2)
        /\ Resp(s).code = HTTP_200_OK
        /\ Len(Resp(s).body[1]) = 1
        /\ Resp(s).body[1][1].timestamp = 2
        /\ req[t].kind = "temperature_history" /\ req[t].pc = "done"
        /\ req[t].body.sensor_name = Some("")
        /\ Resp(t).code = HTTP_200_OK
        /\ \E i \in DOMAIN Resp(t).body[1] :
              Resp(t).body[1][i].sensor_name = Some("Probe")

\* C13: when more than limit stored readings match the filters of GET
\* /api/temperature_history, the rows returned are the limit latest of them:
\* no matching reading that is left out is more recent than a returned one.
C13_HistoryReturnsLatest ==
    [][\A s \in Sessions :
          HistoryAnswers(s) =>
              LET query == req'[s].body
                  rows == req'[s].resp[1].body[1]
                  matching == SelectSeq(temperature_readings,
                                        LAMBDA row : HistoryWhere(row, query))
              IN  Len(matching) > query.limit =>
                      /\ Len(rows) = query.limit
                      /\ \A k \in DOMAIN matching :
                            (\A i \in DOMAIN rows : rows[i] # matching[k]) =>
                                \A i \in DOMAIN rows :
                                    matching[k].timestamp <= rows[i].timestamp]_vars

\* The eight fields of a solar sample that the caller sends.
SolarInputFields ==
    {"panel_voltage", "panel_current", "battery_voltage", "battery_current",
     "load_voltage", "load_current", "load_power", "sunlight_intensity"}

\* The stored sample row carries the eight input fields of data, and an id and
\* a timestamp assigned by the server.
SolarRoundTrip(row, data) ==
    /\ \A f \in SolarInputFields : row[f] = data[f]
    /\ row.id >= 1
    /\ row.timestamp >= 1

\* POST /solar_pv of session p has succeeded and its row is still the last one
\* inserted into solar_pv_data.
SolarPostedLast(p) ==
    /\ req[p].kind = "solar_pv" /\ req[p].pc = "done"
    /\ req[p].resp[1].code = HTTP_201_CREATED
    /\ solar_pv_data # <<>>
    /\ solar_pv_data[Len(solar_pv_data)] = req[p].resp[1].body[1]

\* GET /status of session s reads the latest solar sample at this step, and
\* gets one.
StatusReadsSolar(s) ==
    /\ req[s].kind = "status"
    /\ req[s].pc = "solar"
    /\ req'[s].solar # None

\* C14: after a successful POST /solar_pv of a sample with no later solar
\* insert, the solar sample that GET /status reads and returns equals the
\* sample on its eight input fields, with id and timestamp populated, and is the
\* row the POST response carried.
C14_SolarRoundTrip ==
    [][\A s \in Sessions :
          /\ StatusReadsSolar(s) =>
                \A p \in Sessions :
                    SolarPostedLast(p) =>
                        /\ SolarRoundTrip(req'[s].solar[1], req[p].body)
                        /\ SolarRoundTrip(req[p].resp[1].body[1], req[p].body)
                        /\ req'[s].solar[1] = req[p].resp[1].body[1]
          /\ StatusAnswers(s) =>
                req'[s].resp[1].body[1].solar_data = req[s].solar]_vars

\* GET /status has answered with the second of two stored samples, the one a
\* POST /solar_pv that is still the last insert got back in its response.
C14_Witness ==
    /\ Len(solar_pv_data) = 2
    /\ solar_pv_data[1].panel_voltage # solar_pv_data[2].panel_voltage
    /\ \E s, p \in Sessions :
        /\ SolarPostedLast(p)
        /\ req[s].kind = "status" /\ req[s].pc = "done"
        /\ Resp(s).body[1].solar_data = Some(solar_pv_data[2])
        /\ SolarRoundTrip(Resp(s).body[1].solar_data[1], req[p].body)

\* The stored value is a number within the bounds.
Within(value, min, max) == value # None /\ value[1] >= min /\ value[1] <= max

\* PATCH /api/settings of session s passes the validation at this step.
PatchAccepted(s) ==
    /\ req[s].pc = "idle"
    /\ req'[s].kind = "update_settings"
    /\ ~(req'[s].resp # None /\ req'[s].resp[1].cause = "validation")

\* PATCH /api/settings of session s is rejected by the validation at this step.
PatchRejected(s) ==
    /\ req[s].pc = "idle"
    /\ req'[s].kind = "update_settings"
    /\ req'[s].resp # None
    /\ req'[s].resp[1].code = HTTP_422_UNPROCESSABLE

\* C15: whenever the settings row exists, the stored temperature_setpoint is
\* within [-50, 150] and the stored fan_4_speed_percent and fan_2_speed_percent
\* are within 0..100; a PATCH that carries an out-of-bound value for one of them
\* is rejected, and a rejected PATCH changes nothing.
C15_StoredValuesWithinBounds ==
    [][/\ system_settings' # <<>> =>
            /\ Within(Row(system_settings').temperature_setpoint,
                      SetpointMin, SetpointMax)
            /\ Within(Row(system_settings').fan_4_speed_percent, SpeedMin, SpeedMax)
            /\ Within(Row(system_settings').fan_2_speed_percent, SpeedMin, SpeedMax)
       /\ \A s \in Sessions :
            /\ PatchAccepted(s) =>
                  \A key \in DOMAIN req'[s].body \cap SettingsUpdateFields :
                      FieldValid(key, req'[s].body[key])
            /\ PatchRejected(s) => system_settings' = system_settings]_vars

\* C16: when the settings lookup of GET /status fails with a storage fault, the
\* request is still answered 200, with current_settings absent and with the
\* temperatures and the solar sample as they were fetched.
C16_StatusSurvivesSettingsFault ==
    [][\A s \in Sessions :
          (StatusAnswers(s) /\ req'[s].resp[1].cause = "settings_fault") =>
              /\ req'[s].resp[1].code = HTTP_200_OK
              /\ req'[s].resp[1].body # None
              /\ req'[s].resp[1].body[1].current_settings = None
              /\ req'[s].resp[1].body[1].temperatures = req[s].temps
              /\ req'[s].resp[1].body[1].solar_data = req[s].solar]_vars

\* GET /status has been answered after its settings lookup failed, with the
\* settings row in the table.
C16_Witness ==
    /\ system_settings # <<>>
    /\ \E s \in Sessions :
        /\ req[s].kind = "status" /\ req[s].pc = "done"
        /\ Resp(s).cause = "settings_fault"
        /\ Resp(s).code = HTTP_200_OK
        /\ Resp(s).body[1].current_settings = None

\* The reported-status fields and the reporting-only speeds of the row hold
\* the values the row was created with.
ReportedAsCreated(row) ==
    /\ \A f \in StatusFields : row[f] = Some(FALSE)
    /\ \A f \in ReportingSpeedFields : row[f] = Some(DefaultFanSpeed)

\* The body names an editable field and also a status or reporting-only field.
MixedFields(body) ==
    /\ DOMAIN body \cap SettingsUpdateFields # {}
    /\ DOMAIN body \ SettingsUpdateFields # {}

\* The PATCH of session s gets its response at this step.
PatchAnswered(s) ==
    /\ req[s].kind = "update_settings"
    /\ req[s].resp = None
    /\ req'[s].resp # None

ConcurrentPatch(s) ==
    \E t \in Sessions \ {s} :
        /\ req[t].kind = "update_settings"
        /\ req[t].pc \in {"commit", "refresh"}

\* C18: of two concurrent PATCH requests on the existing row, each with its own
\* session, the one that commits last wins on every field it names: after its
\* commit each such field holds the value it supplied; and its commit leaves
\* the fields it does not name, those the other request wrote included, as they
\* were.
C18_LastCommitterWins ==
    [][\A s \in Sessions :
          (PatchCommits(s) /\ ConcurrentPatch(s)) =>
              LET update_data == ModelDump(req[s].body)
                  before == Row(system_settings)
                  after == Row(system_settings')
              IN  /\ \A key \in DOMAIN update_data : after[key] = update_data[key]
                  /\ \A col \in DOMAIN before \ (DOMAIN update_data \cup {"updated_at"}) :
                        after[col] = before[col]]_vars

====
